---- MODULE Spec2Model ----
(***************************************************************************)
(* Model of the polygon arbitrage bot (src/src/main.rs): the startup       *)
(* sequence of main, the polling loop with its two concurrent price        *)
(* fetches, and the arithmetic of check_arbitrage_opportunity.             *)
(*                                                                         *)
(* Numbers.  The program computes in f64.  The model uses exact            *)
(* fixed-decimal arithmetic: a price, a trade amount and a threshold are   *)
(* integers counting units of 1/Scale; a product of two such values        *)
(* (gross_profit, net_profit) counts units of 1/(Scale*Scale).             *)
(*                                                                         *)
(* Two programs are specified.  Spec is main.rs as written, with get_price *)
(* as the simulation of lines 118-124.  SpecVenue is main.rs with          *)
(* get_price taken at its signature (an async fn returning                 *)
(* Result<f64, anyhow::Error>): a fetch may return any price, return an    *)
(* error, or never complete.  SpecVenue is what lines 51-88 do for every   *)
(* value the two awaited futures can produce.                              *)
(***************************************************************************)
EXTENDS Integers, Sequences, FiniteSets, TLC

VARIABLES config, pc, fetch, decision, reported, fetch_time, slept

\* fetch_time: seconds the join of the current tick has been awaited.
\* slept: seconds slept since the current tick was launched.
vars == <<config, pc, fetch, decision, reported, fetch_time, slept>>

\* Precision of the fixed-decimal arithmetic: values are multiples of 1/Scale.
Scale == 2

\* The longest a fetch that returns is followed for, in seconds.
MaxFetchTime == 2

\* line 87: Duration::from_secs(15)
sleep_secs == 15

----------------------------------------------------------------------------
(* Configuration (config.json, struct Config)                              *)

\* config.dexes: the lists of venue names tried (0, 1, 2 and 3 venues).
DexLists ==
    { <<>>,
      <<"Uniswap V3">>,
      <<"Uniswap V3", "QuickSwap">>,
      <<"QuickSwap", "Uniswap V3">>,
      <<"Uniswap V3", "Other">>,
      <<"Other", "Other">>,
      <<"Other", "QuickSwap", "Uniswap V3">> }

\* fixed_trade_amount_weth after parse::<f64>(): nothing rejects a negative
\* or zero amount.
TradeAmounts == {0 - Scale, 0, 1, Scale, 2 * Scale}

\* min_profit_threshold_usd: any f64 of the file.
Thresholds == {(0 - 3) * Scale, (0 - 2) * Scale, 0, 5 * Scale, 10 * Scale}

\* What can go wrong in lines 38-44, each ending main with Err through `?`.
Faults == {"none", "load_config", "setup_provider", "usdc", "weth", "amount"}

Configs ==
    [ fault : Faults,
      dexes : DexLists,
      fixed_trade_amount : TradeAmounts,
      min_profit_threshold_usd : Thresholds ]

----------------------------------------------------------------------------
(* Price results                                                           *)

Ok(p) == [st |-> "ok", price |-> p]
Err == [st |-> "err", price |-> 0]
Idle == [st |-> "idle", price |-> 0]
Pending == [st |-> "pending", price |-> 0]
Hung == [st |-> "hung", price |-> 0]

\* rand::random::<f64>() * 10.0, sampled: the ends of the range, its middle
\* and the values next to the ends.
RandomOffsets == {0, 1, 5 * Scale, 10 * Scale - 1, 10 * Scale}

MutGetPrice(name) ==
    IF name \in {"Uniswap V3", "QuickSwap"}
    THEN { Ok(3500 * Scale + r) : r \in RandomOffsets }
    ELSE { Err }

\* get_price as written: never an error; 3500 + random*10 for the two known
\* names and 3500 for any other name.
get_price(name) ==
    IF name \in {"Uniswap V3", "QuickSwap"}
    THEN { Ok(3500 * Scale + r) : r \in RandomOffsets }
    ELSE { Ok(3500 * Scale) }

\* The prices a venue can quote when get_price is taken at its signature.
VenuePrices ==
    { 3498 * Scale, 3500 * Scale, 3500 * Scale + 1, 3505 * Scale, 3510 * Scale }

\* An f64 need not be a price: nothing in get_price's type or in main keeps a
\* zero or a negative value out of Ok.
InvalidPrices == {0, 0 - Scale}

\* Result<f64, anyhow::Error>: any value, or an error.
VenueOutcomes == { Ok(p) : p \in VenuePrices \cup InvalidPrices } \cup { Err }

----------------------------------------------------------------------------
(* check_arbitrage_opportunity and the branch of main that calls it        *)

\* Simplified simulated gas cost, in USD.
simulated_gas_cost_usd == 2

NoDecision ==
    [ kind |-> "None", expensive_dex |-> "", expensive_price |-> 0,
      cheap_dex |-> "", cheap_price |-> 0, price_difference |-> 0,
      gross_profit |-> 0, net_profit |-> 0 ]

\* The else branch of line 81: "Error fetching prices from one or more DEXes."
Indeterminate == [NoDecision EXCEPT !.kind = "Indeterminate"]

\* line 137
GrossProfit(price_difference, trade_amount) == price_difference * trade_amount

MutNetProfit(gross_profit) == gross_profit + simulated_gas_cost_usd * Scale * Scale

\* line 141
NetProfit(gross_profit) == gross_profit - simulated_gas_cost_usd * Scale * Scale

MutProfitExceeds(net_profit, min_profit_threshold) ==
    net_profit >= min_profit_threshold * Scale

\* line 146: net_profit > min_profit_threshold
ProfitExceeds(net_profit, min_profit_threshold) ==
    net_profit > min_profit_threshold * Scale

check_arbitrage_opportunity(expensive_dex, expensive_price, cheap_dex, cheap_price, trade_amount, min_profit_threshold) ==
    LET price_difference == expensive_price - cheap_price
        gross_profit == GrossProfit(price_difference, trade_amount)
        net_profit == NetProfit(gross_profit)
    IN  [ kind |-> IF ProfitExceeds(net_profit, min_profit_threshold)
                   THEN "Opportunity" ELSE "NoOpportunity",
          expensive_dex |-> expensive_dex, expensive_price |-> expensive_price,
          cheap_dex |-> cheap_dex, cheap_price |-> cheap_price,
          price_difference |-> price_difference,
          gross_profit |-> gross_profit, net_profit |-> net_profit ]

MutBothOk(price_dex_a, price_dex_b) == price_dex_a.st = "ok" \/ price_dex_b.st = "ok"

\* line 57: if let (Ok(price_a), Ok(price_b)) = (price_dex_a, price_dex_b)
BothOk(price_dex_a, price_dex_b) == price_dex_a.st = "ok" /\ price_dex_b.st = "ok"

MutFirstIsExpensive(price_a, price_b) == price_a < price_b

MutFirstAlways(price_a, price_b) == TRUE

\* line 62: if price_a > price_b
FirstIsExpensive(price_a, price_b) == price_a > price_b

\* A decision that also looks at what the previous tick reported.
MutTickDecision(price_dex_a, price_dex_b, cfg) ==
    IF BothOk(price_dex_a, price_dex_b) /\ reported # "Opportunity"
    THEN IF FirstIsExpensive(price_dex_a.price, price_dex_b.price)
         THEN check_arbitrage_opportunity(
                  cfg.dexes[1], price_dex_a.price, cfg.dexes[2], price_dex_b.price,
                  cfg.fixed_trade_amount, cfg.min_profit_threshold_usd)
         ELSE check_arbitrage_opportunity(
                  cfg.dexes[2], price_dex_b.price, cfg.dexes[1], price_dex_a.price,
                  cfg.fixed_trade_amount, cfg.min_profit_threshold_usd)
    ELSE Indeterminate

\* lines 57-84: what one tick decides from the two joined results.
TickDecision(price_dex_a, price_dex_b, cfg) ==
    IF BothOk(price_dex_a, price_dex_b)
    THEN IF FirstIsExpensive(price_dex_a.price, price_dex_b.price)
         THEN check_arbitrage_opportunity(
                  cfg.dexes[1], price_dex_a.price, cfg.dexes[2], price_dex_b.price,
                  cfg.fixed_trade_amount, cfg.min_profit_threshold_usd)
         ELSE check_arbitrage_opportunity(
                  cfg.dexes[2], price_dex_b.price, cfg.dexes[1], price_dex_a.price,
                  cfg.fixed_trade_amount, cfg.min_profit_threshold_usd)
    ELSE Indeterminate

----------------------------------------------------------------------------
(* main                                                                    *)

Init ==
    /\ config \in Configs
    /\ pc = "start"
    /\ fetch = [i \in {1, 2} |-> Idle]
    /\ decision = NoDecision
    /\ reported = "None"
    /\ fetch_time = 0
    /\ slept = 0

\* lines 38-46: every `?` returns Err from main; otherwise the loop is reached.
Startup ==
    /\ pc = "start"
    /\ pc' = IF config.fault = "none" THEN "loop" ELSE "exit_err"
    /\ UNCHANGED <<config, fetch, decision, reported, fetch_time, slept>>

MutLaunchedFetches == [i \in {1, 2} |-> IF i = 1 THEN Pending ELSE Idle]

\* lines 52-53: one get_price future for dexes[0] and one for dexes[1],
\* whatever the length of config.dexes.
LaunchedFetches == [i \in {1, 2} |-> Pending]

\* lines 51-54: the two get_price futures are created and awaited together.
\* Indexing config.dexes[0] or [1] panics when the list is shorter.
Launch ==
    /\ pc = "loop"
    /\ IF Len(config.dexes) < 2
       THEN /\ pc' = "panicked"
            /\ UNCHANGED <<fetch, decision, fetch_time, slept>>
       ELSE /\ pc' = "sampling"
            /\ fetch' = LaunchedFetches
            /\ decision' = NoDecision
            /\ fetch_time' = 0
            /\ slept' = 0
    /\ UNCHANGED <<config, reported>>

\* get_price of venue i returns (main.rs as written).
Resolve(i) ==
    /\ fetch[i].st = "pending"
    /\ \E r \in get_price(config.dexes[i]) : fetch' = [fetch EXCEPT ![i] = r]
    /\ UNCHANGED <<config, pc, decision, reported, fetch_time, slept>>

\* The fetch of venue i returns (get_price at its signature).
VenueResolve(i) ==
    /\ fetch[i].st = "pending"
    /\ \E r \in VenueOutcomes : fetch' = [fetch EXCEPT ![i] = r]
    /\ UNCHANGED <<config, pc, decision, reported, fetch_time, slept>>

\* A second passes while the join awaits a fetch (get_price at its signature;
\* get_price as written has no await and returns when first polled).
VenueTime ==
    /\ pc = "sampling"
    /\ \E i \in {1, 2} : fetch[i].st \in {"pending", "hung"}
    /\ fetch_time < MaxFetchTime
    /\ fetch_time' = fetch_time + 1
    /\ UNCHANGED <<config, pc, fetch, decision, reported, slept>>

\* The fetch of venue i will never complete (get_price at its signature).
VenueHang(i) ==
    /\ fetch[i].st = "pending"
    /\ fetch' = [fetch EXCEPT ![i] = Hung]
    /\ UNCHANGED <<config, pc, decision, reported, fetch_time, slept>>

MutJoinAny == \E i \in {1, 2} : fetch[i].st \in {"ok", "err"}

MutJoinNoWait == TRUE

\* tokio::join! completes when both futures have completed.
JoinReady == \A i \in {1, 2} : fetch[i].st \in {"ok", "err"}

\* line 51: the join returns (price_dex_a, price_dex_b).
Join ==
    /\ pc = "sampling"
    /\ JoinReady
    /\ pc' = "evaluating"
    /\ UNCHANGED <<config, fetch, decision, reported, fetch_time, slept>>

\* lines 57-80 and 136-146: the decision of the tick.
Evaluate ==
    /\ pc = "evaluating"
    /\ decision' = TickDecision(fetch[1], fetch[2], config)
    /\ pc' = "reporting"
    /\ UNCHANGED <<config, fetch, reported, fetch_time, slept>>

MutAfterReport(d) == IF d.kind = "Indeterminate" THEN "exit_err" ELSE "idle"

MutAfterReportContinue(d) == IF d.kind = "Indeterminate" THEN "loop" ELSE "idle"

\* lines 81-87: whatever was decided, the loop goes on to the sleep.
AfterReport(d) == "idle"

\* lines 147-153 and 83: the decision is printed; then line 87 sleeps.
Report ==
    /\ pc = "reporting"
    /\ reported' = decision.kind
    /\ pc' = AfterReport(decision)
    /\ UNCHANGED <<config, fetch, decision, fetch_time, slept>>

\* lines 87-88: the sleep of 15 s ends and the loop body starts again.
Wake ==
    /\ pc = "idle"
    /\ pc' = "loop"
    /\ slept' = slept + sleep_secs
    /\ UNCHANGED <<config, fetch, decision, reported, fetch_time>>

Next ==
    \/ Startup
    \/ Launch
    \/ Resolve(1)
    \/ Resolve(2)
    \/ Join
    \/ Evaluate
    \/ Report
    \/ Wake

Spec == Init /\ [][Next]_vars

NextVenue ==
    \/ Startup
    \/ Launch
    \/ VenueResolve(1)
    \/ VenueResolve(2)
    \/ VenueHang(1)
    \/ VenueHang(2)
    \/ VenueTime
    \/ Join
    \/ Evaluate
    \/ Report
    \/ Wake

SpecVenue == Init /\ [][NextVenue]_vars

\* The runtime polls every future that can make progress, and the timer of
\* the sleep fires; a fetch that hangs is the venue's choice, not a step the
\* program is owed.
FairSpecVenue ==
    /\ SpecVenue
    /\ WF_vars(Startup)
    /\ WF_vars(Launch)
    /\ WF_vars(VenueResolve(1))
    /\ WF_vars(VenueResolve(2))
    /\ WF_vars(Join)
    /\ WF_vars(Evaluate)
    /\ WF_vars(Report)
    /\ WF_vars(Wake)

----------------------------------------------------------------------------
TypeOK ==
    /\ config \in Configs
    /\ pc \in {"start", "exit_err", "panicked", "loop", "sampling",
               "evaluating", "reporting", "idle"}
    /\ \A i \in {1, 2} : fetch[i].st \in {"idle", "pending", "hung", "ok", "err"}
    /\ reported \in {"None", "Opportunity", "NoOpportunity", "Indeterminate"}

----------------------------------------------------------------------------
(* Properties                                                              *)

price_a == fetch[1].price
price_b == fetch[2].price
HighPrice == IF price_a >= price_b THEN price_a ELSE price_b
LowPrice == IF price_a >= price_b THEN price_b ELSE price_a

\* The tick in progress has been decided by a call of check_arbitrage_opportunity.
Evaluated == decision.kind \in {"Opportunity", "NoOpportunity"}

\* Net profit of the spread of the two quotes of the tick, from the quotes.
SpreadNet ==
    (HighPrice - LowPrice) * config.fixed_trade_amount
        - simulated_gas_cost_usd * Scale * Scale

\* The threshold in the unit of a net profit.
ThresholdNet == config.min_profit_threshold_usd * Scale

AllResolved == \A i \in {1, 2} : fetch[i].st \in {"ok", "err"}

SuccessfulFetches == {i \in {1, 2} : fetch[i].st = "ok"}

\* C1: exclusive threshold.  A tick whose two quotes give a net profit equal
\* to the threshold decides NoOpportunity, and a tick decides Opportunity
\* only when the net profit is strictly greater than the threshold.
C1_ExclusiveThreshold ==
    Evaluated =>
        /\ (SpreadNet = ThresholdNet => decision.kind = "NoOpportunity")
        /\ (decision.kind = "Opportunity" => SpreadNet > ThresholdNet)

\* A=3505, B=3498, amount 1, threshold 5: net profit 5, NoOpportunity.
C1_Witness ==
    /\ decision.kind = "NoOpportunity"
    /\ price_a = 3505 * Scale /\ price_b = 3498 * Scale
    /\ config.fixed_trade_amount = Scale
    /\ config.min_profit_threshold_usd = 5 * Scale
    /\ decision.net_profit = 5 * Scale * Scale

\* C2: with two different quotes the venue that returned the higher price is
\* the sell (expensive) venue and the other the buy (cheap) venue, whether
\* the higher price came from dexes[0] or from dexes[1].
C2_HigherIsSell ==
    (Evaluated /\ price_a # price_b) =>
        /\ decision.expensive_price = HighPrice
        /\ decision.cheap_price = LowPrice
        /\ decision.expensive_dex = config.dexes[IF price_a > price_b THEN 1 ELSE 2]
        /\ decision.cheap_dex = config.dexes[IF price_a > price_b THEN 2 ELSE 1]

\* The second venue quotes the higher price and is the one sold on.
C2_Witness ==
    /\ Evaluated
    /\ price_b > price_a
    /\ config.dexes[1] # config.dexes[2]
    /\ decision.expensive_dex = config.dexes[2]
    /\ decision.expensive_price = price_b

\* C3: a tick in which fewer than two fetches succeeded decides Indeterminate:
\* check_arbitrage_opportunity is not called, and what is reported for the
\* tick is neither Opportunity nor NoOpportunity.
C3_FewerThanTwoIndeterminate ==
    (pc \in {"reporting", "idle"} /\ Cardinality(SuccessfulFetches) < 2) =>
        /\ decision = Indeterminate
        /\ (pc = "idle" => reported = "Indeterminate")

\* One venue answered, the other failed, and the tick was reported.
C3_Witness ==
    /\ pc = "idle"
    /\ fetch[1].st = "ok" /\ fetch[2].st = "err"
    /\ reported = "Indeterminate"

\* C4: two equal quotes always decide NoOpportunity with net profit equal to
\* minus the fee estimate, whatever the trade amount and the threshold.
C4_TiesNoOpportunity ==
    (Evaluated /\ price_a = price_b) =>
        /\ decision.kind = "NoOpportunity"
        /\ decision.net_profit = 0 - simulated_gas_cost_usd * Scale * Scale

\* C5: in every evaluated tick gross profit is (sell - buy) * amount, net
\* profit is gross profit minus the fee estimate, and the decision is
\* Opportunity exactly when net profit is greater than the threshold.
C5_ProfitArithmetic ==
    Evaluated =>
        /\ decision.gross_profit = (HighPrice - LowPrice) * config.fixed_trade_amount
        /\ decision.net_profit =
               decision.gross_profit - simulated_gas_cost_usd * Scale * Scale
        /\ (decision.kind = "Opportunity") <=> (decision.net_profit > ThresholdNet)

\* A=3510, B=3498, amount 1, threshold 5: gross 12, net 10, Opportunity,
\* sell on A and buy on B.
C5_Witness ==
    /\ decision.kind = "Opportunity"
    /\ price_a = 3510 * Scale /\ price_b = 3498 * Scale
    /\ config.fixed_trade_amount = Scale
    /\ config.min_profit_threshold_usd = 5 * Scale
    /\ decision.gross_profit = 12 * Scale * Scale
    /\ decision.net_profit = 10 * Scale * Scale
    /\ decision.expensive_dex = config.dexes[1]
    /\ decision.cheap_dex = config.dexes[2]

\* C6: the evaluation of a tick starts only when both fetches of the tick
\* have resolved, in whatever order they resolve.
C6_EvaluateAfterAllResolved ==
    (pc \in {"evaluating", "reporting"} \/ decision.kind # "None") => AllResolved

\* The second fetch has resolved, the first is pending, nothing is evaluated.
C6_Witness ==
    /\ pc = "sampling"
    /\ fetch[1].st = "pending" /\ fetch[2].st \in {"ok", "err"}
    /\ decision = NoDecision

\* C7: every tick that enters Sampling reaches Evaluating, also when the
\* fetch of one venue never returns (it would be recorded as a timeout).
C7_SamplingReachesEvaluating == (pc = "sampling") ~> (pc = "evaluating")

\* C8: a tick whose fetches have resolved, in any combination of successes
\* and failures, is followed by the wait, and the wait by the next tick.
C8_LoopContinues ==
    /\ (pc = "sampling" /\ AllResolved) ~> (pc = "idle")
    /\ (pc = "idle") ~> (pc = "sampling")

\* A tick with both fetches failed was reported Indeterminate, and the next
\* tick is sampling.
C8_Witness ==
    /\ pc = "sampling"
    /\ reported = "Indeterminate"
    /\ \A i \in {1, 2} : fetch[i].st = "pending"

\* The phases of the loop: the sleep and the top of the loop body are Idle.
PhaseEdges ==
    { <<"loop", "sampling">>, <<"sampling", "evaluating">>,
      <<"evaluating", "reporting">>, <<"reporting", "idle">>, <<"idle", "loop">> }

\* C9: the loop moves Idle -> Sampling -> Evaluating -> Reporting -> Idle, and
\* a Sampling phase starts only when no fetch of an earlier tick is in flight.
\* (A loop that cannot index two venues panics before its first Sampling.)
C9_PhaseOrder ==
    [][ /\ (pc' # pc /\ pc \notin {"start"} /\ pc' # "panicked")
            => <<pc, pc'>> \in PhaseEdges
        /\ (pc' = "panicked") => (pc = "loop" /\ reported = "None")
        /\ (pc' = "sampling" /\ pc # "sampling")
            => \A i \in {1, 2} : fetch[i].st \notin {"pending", "hung"} ]_vars

\* A second Sampling phase, after a first tick was reported.
C9_Witness ==
    /\ pc = "sampling"
    /\ reported # "None"
    /\ fetch[1].st = "ok" /\ fetch[2].st = "pending"

\* C10: with fewer than two venues or a non-positive trade amount no tick is
\* started and no fetch is launched.
C10_ConfigErrorsFatal ==
    (Len(config.dexes) < 2 \/ config.fixed_trade_amount <= 0) =>
        /\ pc \notin {"sampling", "evaluating", "reporting", "idle"}
        /\ \A i \in {1, 2} : fetch[i].st = "idle"

\* C11: a fetched price that is not strictly positive counts as a failed
\* fetch: a tick in which a venue returned one as Ok decides Indeterminate.
C11_InvalidPriceIsFailure ==
    (pc \in {"reporting", "idle"}
        /\ \E i \in {1, 2} : fetch[i].st = "ok" /\ fetch[i].price <= 0)
    => decision.kind = "Indeterminate"

\* C12: ticks start on a fixed grid of the poll interval: the time from the
\* start of one tick to the start of the next is a multiple of the interval,
\* however long the fetches took.
C12_FixedGrid ==
    (pc = "loop" /\ reported # "None") => (fetch_time + slept) % sleep_secs = 0

RefDecision ==
    IF Cardinality(SuccessfulFetches) = 2
    THEN [ kind |-> IF SpreadNet > ThresholdNet THEN "Opportunity" ELSE "NoOpportunity",
           expensive_dex |-> config.dexes[IF price_a > price_b THEN 1 ELSE 2],
           expensive_price |-> HighPrice,
           cheap_dex |-> config.dexes[IF price_a > price_b THEN 2 ELSE 1],
           cheap_price |-> LowPrice,
           price_difference |-> HighPrice - LowPrice,
           gross_profit |-> (HighPrice - LowPrice) * config.fixed_trade_amount,
           net_profit |-> SpreadNet ]
    ELSE Indeterminate

\* C14: the decision of a tick, and what is reported for it, is one function
\* of the two price results of that tick and of the configuration: whatever
\* earlier ticks fetched, decided or reported does not enter it.
C14_DecisionFromTickOnly ==
    /\ decision.kind # "None" => decision = RefDecision
    /\ pc = "idle" => reported = RefDecision.kind

\* A tick that follows a reported opportunity and decides from its own quotes.
C14_Witness ==
    /\ pc = "reporting"
    /\ reported = "Opportunity"
    /\ decision.kind = "NoOpportunity"

\* C15: every call of check_arbitrage_opportunity gets expensive_price >=
\* cheap_price and dexes[0], dexes[1] as the two venues, one on each side;
\* price_difference is never negative, and with a positive trade amount
\* net_profit is never below minus the gas cost.
C15_CallArguments ==
    Evaluated =>
        /\ decision.expensive_price >= decision.cheap_price
        /\ \/ /\ decision.expensive_dex = config.dexes[1]
              /\ decision.expensive_price = price_a
              /\ decision.cheap_dex = config.dexes[2]
              /\ decision.cheap_price = price_b
           \/ /\ decision.expensive_dex = config.dexes[2]
              /\ decision.expensive_price = price_b
              /\ decision.cheap_dex = config.dexes[1]
              /\ decision.cheap_price = price_a
        /\ decision.price_difference >= 0
        /\ (config.fixed_trade_amount > 0
               => decision.net_profit >= 0 - simulated_gas_cost_usd * Scale * Scale)

\* dexes[1] is the expensive venue, and a positive amount is traded.
C15_Witness ==
    /\ Evaluated
    /\ price_b > price_a
    /\ decision.expensive_dex = config.dexes[2]
    /\ decision.price_difference > 0
    /\ config.fixed_trade_amount > 0

\* C16: when the loop body starts again after a tick, the sleep of 15 s has
\* run exactly once since that tick was launched, whether the tick reported a
\* decision or the fetch error.
C16_OneWaitBetweenTicks ==
    /\ (pc = "loop" /\ reported # "None") => slept = sleep_secs
    /\ (pc \in {"sampling", "evaluating", "reporting", "idle"}) => slept = 0

\* A tick that reported the fetch error has been followed by the wait.
C16_Witness ==
    /\ pc = "loop"
    /\ reported = "Indeterminate"
    /\ slept = sleep_secs

\* C17: get_price as written never fails and returns a price from 3500 to
\* 3510, so no tick takes the fetch-error branch: every tick that is
\* evaluated reports an opportunity or no opportunity.
C17_GetPriceNeverFails ==
    /\ \A i \in {1, 2} :
           /\ fetch[i].st \in {"idle", "pending", "ok"}
           /\ fetch[i].st = "ok"
                => (3500 * Scale <= fetch[i].price /\ fetch[i].price <= 3510 * Scale)
    /\ decision.kind # "Indeterminate"
    /\ reported # "Indeterminate"
    /\ pc = "idle" => reported \in {"Opportunity", "NoOpportunity"}

\* A venue whose name get_price does not know was fetched and the tick reported.
C17_Witness ==
    /\ pc = "idle"
    /\ config.dexes[2] = "Other"
    /\ fetch[2] = Ok(3500 * Scale)
    /\ reported \in {"Opportunity", "NoOpportunity"}
====
